---- MODULE Spec2Model ----
(***************************************************************************)
(* Model of the authentication gateway of mcp-gateway-k8s:                 *)
(*   - MethodAwareAuthMiddleware and _extract_jsonrpc_methods              *)
(*     (images/notion-mcp-remote/auth/discovery_auth.py)                   *)
(*   - the per-request client slot (images/notion-mcp-remote/              *)
(*     client_patch.py) under the transport setting of                     *)
(*     images/gcal-mcp-remote/server.py                                    *)
(*                                                                         *)
(* A request body is a sequence of lexical units, each standing for a      *)
(* fixed byte string: the JSON punctuation "[" "]" ",", a scalar "1", an   *)
(* object literal, or the byte 0xff that no UTF encoding can decode.       *)
(***************************************************************************)
EXTENDS Integers, Sequences, FiniteSets, TLC

\* ---------------------------------------------------------------- bounds
MaxRaw == 1          \* longest arbitrary unit sequence used as a body
MaxBatch == 2        \* longest well-formed batch array used as a body
MaxChunks == 2       \* most http.request frames the transport splits a body into
MaxReads == 3        \* most receive() calls made for one request

\* ------------------------------------------------------- JSON value model
\* the value of a "method" field: t is the JSON type, v its text
MStr(s) == [t |-> "str", v |-> s]
MNum(s) == [t |-> "num", v |-> s]
MList == [t |-> "list", v |-> "x"]
MAbsent == [t |-> "absent", v |-> ""]

\* bool(m) of Python for the value dict.get("method") returns
Truthy(m) ==
    CASE m.t = "absent" -> FALSE
      [] m.t = "str" -> m.v # ""
      [] m.t = "num" -> m.v # "0"
      [] m.t = "list" -> TRUE

\* hash(m) succeeds: lists and dicts are unhashable
Hashable(m) == m.t # "list"

UNAUTHENTICATED_METHODS ==
    { MStr("initialize"), MStr("notifications/initialized"), MStr("tools/list"),
      MStr("prompts/list"), MStr("resources/list"), MStr("ping") }

\* parsed JSON documents
JObj(m) == [t |-> "obj", method |-> m, items |-> <<>>]
JArr(xs) == [t |-> "arr", method |-> MAbsent, items |-> xs]
JScalar == [t |-> "scalar", method |-> MAbsent, items |-> <<>>]

\* ---------------------------------------------------------- body units
ObjAbsent == "{}"
ObjList == "{\"method\":\"tools/list\"}"
ObjPing == "{\"method\":\"ping\"}"
ObjCall == "{\"method\":\"tools/call\"}"
ObjEmptyStr == "{\"method\":\"\"}"
ObjNum == "{\"method\":7}"
ObjUnhashable == "{\"method\":[\"x\"]}"
Scalar == "1"
BadByte == "\\xff"

ObjectUnits == {ObjAbsent, ObjList, ObjPing, ObjCall, ObjEmptyStr, ObjNum, ObjUnhashable}
ItemUnits == ObjectUnits \cup {Scalar}
Units == ItemUnits \cup {"[", "]", ",", BadByte}

\* the value the JSON decoder builds for a one-unit literal
UnitValue(u) ==
    CASE u = ObjAbsent -> JObj(MAbsent)
      [] u = ObjList -> JObj(MStr("tools/list"))
      [] u = ObjPing -> JObj(MStr("ping"))
      [] u = ObjCall -> JObj(MStr("tools/call"))
      [] u = ObjEmptyStr -> JObj(MStr(""))
      [] u = ObjNum -> JObj(MNum("7"))
      [] u = ObjUnhashable -> JObj(MList)
      [] u = Scalar -> JScalar

ParseFail == [ok |-> FALSE, val |-> JScalar, next |-> 0]

RECURSIVE ParseValue(_, _), ParseElems(_, _, _)
\* recursive-descent parse of one JSON value starting at position i
ParseValue(s, i) ==
    IF i > Len(s) THEN ParseFail
    ELSE IF s[i] \in ItemUnits THEN [ok |-> TRUE, val |-> UnitValue(s[i]), next |-> i + 1]
    ELSE IF s[i] = "[" THEN
        IF i + 1 <= Len(s) /\ s[i + 1] = "]"
        THEN [ok |-> TRUE, val |-> JArr(<<>>), next |-> i + 2]
        ELSE ParseElems(s, i + 1, <<>>)
    ELSE ParseFail

\* the elements of an array after its "[": value ("," value)* "]"
ParseElems(s, i, acc) ==
    LET e == ParseValue(s, i) IN
    IF ~e.ok THEN ParseFail
    ELSE IF e.next > Len(s) THEN ParseFail
    ELSE IF s[e.next] = "]" THEN [ok |-> TRUE, val |-> JArr(Append(acc, e.val)), next |-> e.next + 1]
    ELSE IF s[e.next] = "," THEN ParseElems(s, e.next + 1, Append(acc, e.val))
    ELSE ParseFail

\* json.loads(bytes): decode the bytes, then parse exactly one document
json_loads(body) ==
    IF \E i \in 1..Len(body) : body[i] = BadByte
    THEN [exc |-> "UnicodeDecodeError", val |-> JScalar]
    ELSE LET p == ParseValue(body, 1) IN
         IF p.ok /\ p.next = Len(body) + 1
         THEN [exc |-> "none", val |-> p.val]
         ELSE [exc |-> "JSONDecodeError", val |-> JScalar]

\* the exceptions _extract_jsonrpc_methods catches
CaughtExceptions == {"JSONDecodeError", "KeyError", "IndexError"}

\* a slip that looks at the first element of a batch only
MethodCandidatesFirstOnly(parsed) ==
    IF parsed.t = "obj" THEN
        IF Truthy(parsed.method) THEN {parsed.method} ELSE {}
    ELSE IF parsed.t = "arr" THEN
        IF /\ Len(parsed.items) >= 1
           /\ parsed.items[1].t = "obj"
           /\ Truthy(parsed.items[1].method)
        THEN {parsed.items[1].method} ELSE {}
    ELSE {}

\* the method values a set display or comprehension evaluates, in order
MethodCandidates(parsed) ==
    IF parsed.t = "obj" THEN
        IF Truthy(parsed.method) THEN {parsed.method} ELSE {}
    ELSE IF parsed.t = "arr" THEN
        { parsed.items[k].method : k \in
            { j \in 1..Len(parsed.items) :
                parsed.items[j].t = "obj" /\ Truthy(parsed.items[j].method) } }
    ELSE {}

\* _extract_jsonrpc_methods: the set returned, or the exception that escapes
_extract_jsonrpc_methods(body) ==
    LET r == json_loads(body) IN
    IF r.exc \in CaughtExceptions THEN [exc |-> "none", methods |-> {}]
    ELSE IF r.exc # "none" THEN [exc |-> r.exc, methods |-> {}]
    ELSE LET c == MethodCandidates(r.val) IN
         IF \E m \in c : ~Hashable(m)
         THEN [exc |-> "TypeError", methods |-> {}]
         ELSE [exc |-> "none", methods |-> c]

\* ------------------------------------------------------------ the state
VARIABLES
    pc,            \* position of each request inside __call__
    scope,         \* the ASGI scope of each request
    body,          \* the body the client sends, whole
    wire,          \* transport: units not yet handed to receive()
    nchunks,       \* transport: http.request frames handed over so far
    sentFinal,     \* transport: the frame with more_body false was handed over
    closed,        \* transport: http.disconnect was handed over
    reads,         \* number of receive() calls made on the transport
    body_parts,    \* local of __call__
    body_complete, \* local of __call__
    full_body,     \* local of __call__
    rpc_methods,   \* local of __call__
    body_sent,     \* local of __call__
    handler,       \* the downstream handler invoked, "none" before
    rcv,           \* the receive callable handed to that handler
    seen,          \* the messages the handler has read, in order
    exc,           \* the exception that left __call__, "none" if none
    spc,           \* credential slot: position of each tool-serving request
    session,       \* credential slot: the session each request belongs to
    api_key,       \* credential slot: the key each request authenticates with
    ctxOf,         \* credential slot: the execution context each request runs in
    slot,          \* value of the ContextVar _request_client in each context
    bound,         \* the client each request bound with set_client_for_request
    got,           \* result of each request's latest patched_get_client call
    gets,          \* number of patched_get_client calls each request made
    nextId,        \* identity of the next NotionClient object constructed
    calls,         \* the downstream handlers each request invoked, in order
    cpc,           \* OAuth callback: position of each callback request
    params,        \* OAuth callback: the query parameters of each request
    outcome,       \* OAuth callback: how the code exchange of each request ended
    exchanges,     \* OAuth callback: code exchanges each request started
    resp,          \* OAuth callback: the response each request was answered with
    logged         \* OAuth callback: what each request wrote to the log

gateVars == <<pc, scope, body, wire, nchunks, sentFinal, closed, reads, body_parts,
              body_complete, full_body, rpc_methods, body_sent, handler, rcv, seen, exc,
              calls>>

slotVars == <<spc, session, api_key, ctxOf, slot, bound, got, gets, nextId>>

cbVars == <<cpc, params, outcome, exchanges, resp, logged>>

vars == <<gateVars, slotVars, cbVars>>

Requests == DOMAIN pc

\* ------------------------------------------------------------ the inputs
RECURSIVE SeqsUpTo(_, _)
\* all sequences over S of length at most n
SeqsUpTo(S, n) ==
    IF n = 0 THEN {<<>>}
    ELSE LET shorter == SeqsUpTo(S, n - 1) IN
         shorter \cup { Append(q, x) : q \in { t \in shorter : Len(t) = n - 1 }, x \in S }

RECURSIVE Joined(_, _)
\* the units of a batch array after its "[": items separated by ","
Joined(items, i) ==
    IF i > Len(items) THEN <<"]">>
    ELSE IF i = Len(items) THEN <<items[i], "]">>
    ELSE <<items[i], ",">> \o Joined(items, i + 1)

\* the body a client sends for a batch of the given items
BatchBody(items) == <<"[">> \o Joined(items, 1)

Bodies == SeqsUpTo(Units, MaxRaw) \cup { BatchBody(b) : b \in SeqsUpTo(ItemUnits, MaxBatch) }

Scopes ==
    { [type |-> "http", method |-> m, authorization |-> a] :
        m \in {"POST", "GET", "DELETE", "absent"}, a \in {"none", "bearer"} }
    \cup { [type |-> "websocket", method |-> "absent", authorization |-> a] :
        a \in {"none", "bearer"} }

\* ASGI messages
RequestFrame(b, more) == [type |-> "http.request", body |-> b, more_body |-> more]
Disconnect == [type |-> "http.disconnect", body |-> <<>>, more_body |-> FALSE]

\* n requests enter the middleware, each with a scope and a body of the given sets
InitGate(n, scopeSet, bodySet) ==
    /\ pc = [r \in 1..n |-> "start"]
    /\ scope \in [1..n -> scopeSet]
    /\ body \in [1..n -> bodySet]
    /\ wire = body
    /\ nchunks = [r \in 1..n |-> 0]
    /\ sentFinal = [r \in 1..n |-> FALSE]
    /\ closed = [r \in 1..n |-> FALSE]
    /\ reads = [r \in 1..n |-> 0]
    /\ body_parts = [r \in 1..n |-> <<>>]
    /\ body_complete = [r \in 1..n |-> FALSE]
    /\ full_body = [r \in 1..n |-> <<>>]
    /\ rpc_methods = [r \in 1..n |-> {}]
    /\ body_sent = [r \in 1..n |-> FALSE]
    /\ handler = [r \in 1..n |-> "none"]
    /\ rcv = [r \in 1..n |-> "none"]
    /\ seen = [r \in 1..n |-> <<>>]
    /\ exc = [r \in 1..n |-> "none"]
    /\ calls = [r \in 1..n |-> <<>>]

\* --------------------------------------------------------- the transport
\* what one call of the server's receive() for request r can return, with
\* the transport state it leaves: the next frame of the body, or
\* http.disconnect once the client has gone; after a disconnect it returns
\* http.disconnect again
ReceiveOutcomes(r) ==
    IF closed[r] THEN
        { [msg |-> Disconnect, wire |-> wire[r], final |-> sentFinal[r], n |-> nchunks[r]] }
    ELSE
        { [msg |-> Disconnect, wire |-> wire[r], final |-> sentFinal[r], n |-> nchunks[r]] }
        \cup
        { [msg |-> RequestFrame(SubSeq(wire[r], 1, c.k), c.more),
           wire |-> SubSeq(wire[r], c.k + 1, Len(wire[r])),
           final |-> ~c.more, n |-> nchunks[r] + 1] :
            c \in { d \in [k : 0..Len(wire[r]), more : BOOLEAN] :
                      /\ ~sentFinal[r]
                      /\ (d.k < Len(wire[r]) => d.more)
                      /\ (d.more => nchunks[r] + 1 < MaxChunks) } }

\* ------------------------------------------- MethodAwareAuthMiddleware
\* __call__ up to the loop: scopes that are not http POST go to the auth
\* middleware with the original receive; a POST starts buffering
ScopeMethod(sc) == IF sc.method = "absent" THEN "GET" ELSE sc.method

\* a slip that sends every request with a credential to the auth middleware
EnforcedUnreadOrBearer(sc) ==
    sc.type # "http" \/ ScopeMethod(sc) # "POST" \/ sc.authorization = "bearer"

\* a slip that sends only GET to the auth middleware unread
EnforcedUnreadGetOnly(sc) == sc.type # "http" \/ ScopeMethod(sc) = "GET"

\* the two early returns of __call__
EnforcedUnread(sc) == sc.type # "http" \/ ScopeMethod(sc) # "POST"

Dispatch(r) ==
    /\ pc[r] = "start"
    /\ IF EnforcedUnread(scope[r])
       THEN /\ handler' = [handler EXCEPT ![r] = "auth_middleware"]
            /\ calls' = [calls EXCEPT ![r] = Append(calls[r], "auth_middleware")]
            /\ rcv' = [rcv EXCEPT ![r] = "receive"]
            /\ pc' = [pc EXCEPT ![r] = "handler"]
       ELSE /\ pc' = [pc EXCEPT ![r] = "buffering"]
            /\ UNCHANGED <<handler, rcv, calls>>
    /\ UNCHANGED <<scope, body, wire, nchunks, sentFinal, closed, reads, body_parts,
                   body_complete, full_body, rpc_methods, body_sent, seen, exc>>
    /\ UNCHANGED slotVars
    /\ UNCHANGED cbVars

RECURSIVE PartsOfAll(_)
\* the parts of all requests from request i on, as one list
PartsOfAll(i) == IF i > Len(body_parts) THEN <<>> ELSE body_parts[i] \o PartsOfAll(i + 1)

\* a slip that keeps the parts on the middleware instance, shared by all
\* requests that pass through it
BufferedPartsOnInstance(parts, m) ==
    IF m.type = "http.request" THEN Append(PartsOfAll(1), m.body) ELSE parts

\* a slip that keeps only the latest chunk
BufferedPartsKeepLast(parts, m) ==
    IF m.type = "http.request" THEN <<m.body>> ELSE parts

\* body_parts and body_complete after buffering_receive got message m
BufferedParts(parts, m) ==
    IF m.type = "http.request" THEN Append(parts, m.body) ELSE parts

\* a slip that takes the first frame for the whole body
BufferedCompleteFirstFrame(complete, m) ==
    IF m.type = "http.request" THEN TRUE ELSE complete

\* a slip that takes any message without more_body for the end of the body
BufferedCompleteAnyType(complete, m) ==
    IF ~m.more_body THEN TRUE ELSE complete

BufferedComplete(complete, m) ==
    IF m.type = "http.request" /\ ~m.more_body THEN TRUE ELSE complete

\* one turn of "while not body_complete: await buffering_receive()"
BufferingReceive(r) ==
    /\ pc[r] = "buffering"
    /\ ~body_complete[r]
    /\ reads[r] < MaxReads
    /\ \E o \in ReceiveOutcomes(r) :
        /\ wire' = [wire EXCEPT ![r] = o.wire]
        /\ sentFinal' = [sentFinal EXCEPT ![r] = o.final]
        /\ nchunks' = [nchunks EXCEPT ![r] = o.n]
        /\ closed' = [closed EXCEPT ![r] = closed[r] \/ o.msg.type = "http.disconnect"]
        /\ body_parts' = [body_parts EXCEPT ![r] = BufferedParts(body_parts[r], o.msg)]
        /\ body_complete' = [body_complete EXCEPT ![r] = BufferedComplete(body_complete[r], o.msg)]
    /\ reads' = [reads EXCEPT ![r] = reads[r] + 1]
    /\ UNCHANGED <<pc, scope, body, full_body, rpc_methods, body_sent, handler, rcv, seen, exc, calls>>
    /\ UNCHANGED slotVars
    /\ UNCHANGED cbVars

RECURSIVE Join(_, _)
\* b"".join(parts), from part i on
Join(parts, i) == IF i > Len(parts) THEN <<>> ELSE parts[i] \o Join(parts, i + 1)

\* the loop has ended: join the parts and extract the methods; an exception
\* of the extraction leaves __call__
Classify(r) ==
    /\ pc[r] = "buffering"
    /\ body_complete[r]
    /\ LET joined == Join(body_parts[r], 1)
           e == _extract_jsonrpc_methods(joined) IN
        /\ full_body' = [full_body EXCEPT ![r] = joined]
        /\ rpc_methods' = [rpc_methods EXCEPT ![r] = e.methods]
        /\ exc' = [exc EXCEPT ![r] = e.exc]
        /\ pc' = [pc EXCEPT ![r] = IF e.exc = "none" THEN "route" ELSE "done"]
    /\ UNCHANGED <<scope, body, wire, nchunks, sentFinal, closed, reads, body_parts,
                   body_complete, body_sent, handler, rcv, seen, calls>>
    /\ UNCHANGED slotVars
    /\ UNCHANGED cbVars

\* a slip that bypasses as soon as one method is public
BypassesAnyPublic(methods) == methods \cap UNAUTHENTICATED_METHODS # {}

\* the bypass test of __call__
Bypasses(methods) == methods # {} /\ methods \subseteq UNAUTHENTICATED_METHODS

\* the if/else at the end of __call__: invoke one handler with replay_receive
Route(r) ==
    /\ pc[r] = "route"
    /\ LET chosen == IF Bypasses(rpc_methods[r]) THEN "app" ELSE "auth_middleware" IN
        /\ handler' = [handler EXCEPT ![r] = chosen]
        /\ calls' = [calls EXCEPT ![r] = Append(calls[r], chosen)]
    /\ rcv' = [rcv EXCEPT ![r] = "replay_receive"]
    /\ pc' = [pc EXCEPT ![r] = "handler"]
    /\ UNCHANGED <<scope, body, wire, nchunks, sentFinal, closed, reads, body_parts,
                   body_complete, full_body, rpc_methods, body_sent, seen, exc>>
    /\ UNCHANGED slotVars
    /\ UNCHANGED cbVars

\* the frame replay_receive builds on its first call
ReplayFrame(full) == RequestFrame(full, FALSE)

\* a slip that forgets the body_sent flag
ReplaysBufferedAlways(via, sent) == via = "replay_receive"

\* replay_receive answers from the buffer: its first call only
ReplaysBuffered(via, sent) == via = "replay_receive" /\ ~sent

\* the invoked handler awaits the receive callable it was given:
\* replay_receive returns the buffered frame once and then the transport's
\* messages; the original receive returns the transport's messages
HandlerReceive(r) ==
    /\ pc[r] = "handler"
    /\ scope[r].type = "http"
    /\ IF ReplaysBuffered(rcv[r], body_sent[r])
       THEN /\ body_sent' = [body_sent EXCEPT ![r] = TRUE]
            /\ seen' = [seen EXCEPT ![r] = Append(seen[r], ReplayFrame(full_body[r]))]
            /\ UNCHANGED <<wire, nchunks, sentFinal, closed, reads>>
       ELSE /\ reads[r] < MaxReads
            /\ \E o \in ReceiveOutcomes(r) :
                /\ wire' = [wire EXCEPT ![r] = o.wire]
                /\ sentFinal' = [sentFinal EXCEPT ![r] = o.final]
                /\ nchunks' = [nchunks EXCEPT ![r] = o.n]
                /\ closed' = [closed EXCEPT ![r] = closed[r] \/ o.msg.type = "http.disconnect"]
                /\ seen' = [seen EXCEPT ![r] = Append(seen[r], o.msg)]
            /\ reads' = [reads EXCEPT ![r] = reads[r] + 1]
            /\ UNCHANGED body_sent
    /\ UNCHANGED <<pc, scope, body, body_parts, body_complete, full_body, rpc_methods,
                   handler, rcv, exc, calls>>
    /\ UNCHANGED slotVars
    /\ UNCHANGED cbVars

\* a slip that leaves out the return after the early call of the auth
\* middleware, so that __call__ goes on to buffer and route
AfterHandlerNoEarlyReturn(via, e) ==
    IF via = "receive" /\ e = "none" THEN "buffering" ELSE "done"

\* where __call__ goes when the awaited handler has returned or raised:
\* the early calls are followed by return, the last one ends the function,
\* and an exception of the handler leaves __call__
AfterHandler(via, e) == "done"

\* the awaited handler returns or raises; __call__ ends with it
HandlerReturn(r) ==
    /\ pc[r] = "handler"
    /\ \E e \in {"none", "HandlerError"} :
        /\ exc' = [exc EXCEPT ![r] = e]
        /\ pc' = [pc EXCEPT ![r] = AfterHandler(rcv[r], e)]
    /\ UNCHANGED <<scope, body, wire, nchunks, sentFinal, closed, reads, body_parts,
                   body_complete, full_body, rpc_methods, body_sent, handler, rcv, seen, calls>>
    /\ UNCHANGED slotVars
    /\ UNCHANGED cbVars

\* --------------------------------------------- the per-request client slot
NumSlotRequests == 2   \* requests served by tool code
MaxGets == 1           \* patched_get_client calls per request

\* transport sessions the requests belong to
SessionIds == {"session-1", "session-2"}

Keys == {"key-a", "key-b"}

\* mcp.settings.stateless_http as the server sets it
stateless_http == FALSE

\* values of a context variable and results of patched_get_client
None == [api_key |-> "None", id |-> 0]
RuntimeError == [api_key |-> "RuntimeError", id |-> 0]
NoCall == [api_key |-> "NoCall", id |-> 0]
\* NotionClient(api_key=k): a new object on every construction
NotionClient(k, id) == [api_key |-> k, id |-> id]

TaskContext(s) == [kind |-> "task", id |-> ToString(s)]
SessionContext(k) == [kind |-> "session", id |-> k]

\* the contextvar scope a request executes in: with stateless_http each
\* request runs in a fresh Task with its own scope; in session mode the
\* requests of a session run in the scope of that session
RequestContext(s) ==
    IF stateless_http THEN TaskContext(s) ELSE SessionContext(session[s])

InitSlot(n) ==
    /\ spc = [s \in 1..n |-> "new"]
    /\ session \in [1..n -> SessionIds]
    /\ api_key \in [1..n -> Keys]
    /\ ctxOf = [s \in 1..n |-> [kind |-> "none", id |-> ""]]
    /\ slot = [c \in {TaskContext(s) : s \in 1..n} \cup {SessionContext(k) : k \in SessionIds}
                 |-> None]
    /\ bound = [s \in 1..n |-> None]
    /\ got = [s \in 1..n |-> NoCall]
    /\ gets = [s \in 1..n |-> 0]
    /\ nextId = 1

SlotRequests == DOMAIN spc

\* a request starts executing in its contextvar scope
BeginRequest(s) ==
    /\ spc[s] = "new"
    /\ spc' = [spc EXCEPT ![s] = "auth"]
    /\ ctxOf' = [ctxOf EXCEPT ![s] = RequestContext(s)]
    /\ UNCHANGED <<session, api_key, slot, bound, got, gets, nextId>>
    /\ UNCHANGED gateVars
    /\ UNCHANGED cbVars

\* set_client_for_request(api_key): construct a client and set the variable
\* in the current context
set_client_for_request(s) ==
    /\ spc[s] = "auth"
    /\ LET client == NotionClient(api_key[s], nextId) IN
        /\ slot' = [slot EXCEPT ![ctxOf[s]] = client]
        /\ bound' = [bound EXCEPT ![s] = client]
    /\ nextId' = nextId + 1
    /\ spc' = [spc EXCEPT ![s] = "tool"]
    /\ UNCHANGED <<session, api_key, ctxOf, got, gets>>
    /\ UNCHANGED gateVars
    /\ UNCHANGED cbVars

\* tool code is reached by a request that bound no client
EnterUnbound(s) ==
    /\ spc[s] = "auth"
    /\ spc' = [spc EXCEPT ![s] = "tool"]
    /\ UNCHANGED <<session, api_key, ctxOf, slot, bound, got, gets, nextId>>
    /\ UNCHANGED gateVars
    /\ UNCHANGED cbVars

\* a slip that hands the unset value on instead of raising
patched_get_client_unchecked(client) == client

\* patched_get_client() on the value _request_client.get() returns
patched_get_client(client) == IF client = None THEN RuntimeError ELSE client

\* tool code of request s calls patched_get_client
GetClient(s) ==
    /\ spc[s] = "tool"
    /\ gets[s] < MaxGets
    /\ got' = [got EXCEPT ![s] = patched_get_client(slot[ctxOf[s]])]
    /\ gets' = [gets EXCEPT ![s] = gets[s] + 1]
    /\ UNCHANGED <<spc, session, api_key, ctxOf, slot, bound, nextId>>
    /\ UNCHANGED gateVars
    /\ UNCHANGED cbVars

\* the request completes, normally or with an error; nothing resets the
\* variable
EndRequest(s) ==
    /\ spc[s] = "tool"
    /\ \E how \in {"done", "failed"} : spc' = [spc EXCEPT ![s] = how]
    /\ UNCHANGED <<session, api_key, ctxOf, slot, bound, got, gets, nextId>>
    /\ UNCHANGED gateVars
    /\ UNCHANGED cbVars

\* ------------------------------------------------ the OAuth callback
\* the callback requests considered together
Callbacks == {"cb-1", "cb-2"}

\* request.query_params.get(name): None when the parameter is missing; a
\* parameter given without a value is the empty string
NoParam == "<None>"
ErrorParams == {NoParam, "", "access_denied"}
CodeParams == {NoParam, "", "4/auth-code"}
StateParams == {NoParam, "", "nonce-1"}

\* bool(p) of Python for a query parameter
ParamTruthy(p) == p # NoParam /\ p # ""

\* what provider.exchange_google_code can do: return the redirect URL,
\* raise a ValueError or raise another Exception, each with its detail
RedirectUrls == {"https://client.example/cb?code=local-1"}
FailureDetails == {"detail-a", "detail-b"}
ExchangeOutcomes ==
    { [kind |-> "returns", value |-> u] : u \in RedirectUrls }
    \cup { [kind |-> k, value |-> d] : k \in {"ValueError", "Exception"}, d \in FailureDetails }
NoOutcome == [kind |-> "none", value |-> ""]

\* JSONResponse and RedirectResponse
JSONResponse(err, detail, status) ==
    [status |-> status, error |-> err, detail |-> detail, location |-> ""]
RedirectResponse(url, status) ==
    [status |-> status, error |-> "", detail |-> "", location |-> url]
NoResponse == [status |-> 0, error |-> "", detail |-> "", location |-> ""]

InitCallback(ids) ==
    /\ cpc = [c \in ids |-> "start"]
    /\ params \in [ids -> [code : CodeParams, state : StateParams, error : ErrorParams]]
    /\ outcome = [c \in ids |-> NoOutcome]
    /\ exchanges = [c \in ids |-> 0]
    /\ resp = [c \in ids |-> NoResponse]
    /\ logged = [c \in ids |-> <<>>]

CallbackRequests == DOMAIN cpc

\* a slip that looks at code and state before it looks at error
CallbackBranchCodeFirst(p) ==
    IF ParamTruthy(p.code) /\ ParamTruthy(p.state) THEN "exchange"
    ELSE IF ParamTruthy(p.error) THEN "error"
    ELSE "missing_params"

\* the two tests before the try block of google_oauth_callback
CallbackBranch(p) ==
    IF ParamTruthy(p.error) THEN "error"
    ELSE IF ~ParamTruthy(p.code) \/ ~ParamTruthy(p.state) THEN "missing_params"
    ELSE "exchange"

\* the response to a request that carries an error
ErrorResponse(error) == JSONResponse("google_oauth_error", error, 400)

MissingParamsResponse == JSONResponse("missing_params", "code and state are required", 400)

\* google_oauth_callback up to the await of the exchange
CallbackEnter(c) ==
    /\ cpc[c] = "start"
    /\ LET branch == CallbackBranch(params[c]) IN
        /\ cpc' = [cpc EXCEPT ![c] = IF branch = "exchange" THEN "exchanging" ELSE "done"]
        /\ exchanges' = [exchanges EXCEPT ![c] = IF branch = "exchange" THEN exchanges[c] + 1 ELSE exchanges[c]]
        /\ resp' = [resp EXCEPT ![c] =
                       CASE branch = "error" -> ErrorResponse(params[c].error)
                         [] branch = "missing_params" -> MissingParamsResponse
                         [] OTHER -> resp[c]]
        /\ logged' = [logged EXCEPT ![c] =
                       IF branch = "error" THEN Append(logged[c], params[c].error) ELSE logged[c]]
    /\ UNCHANGED <<params, outcome>>
    /\ UNCHANGED gateVars
    /\ UNCHANGED slotVars

\* a slip that echoes the detail of every failure
ExchangeResponseEchoAll(o) ==
    CASE o.kind = "returns" -> RedirectResponse(o.value, 302)
      [] o.kind = "ValueError" -> JSONResponse("callback_failed", o.value, 400)
      [] o.kind = "Exception" -> JSONResponse("internal_error", o.value, 500)

\* the try block: the response for each way the exchange can end
ExchangeResponse(o) ==
    CASE o.kind = "returns" -> RedirectResponse(o.value, 302)
      [] o.kind = "ValueError" -> JSONResponse("callback_failed", o.value, 400)
      [] o.kind = "Exception" -> JSONResponse("internal_error", "An internal error occurred", 500)

\* a slip that tries the exchange again after an unexpected failure
AfterExchangeRetryOnce(o, started) ==
    IF o.kind = "Exception" /\ started < 2 THEN "retry" ELSE "done"

\* where google_oauth_callback goes when the awaited exchange has ended:
\* every branch of the try block returns
AfterExchange(o, started) == "done"

\* the awaited exchange_google_code returns or raises
ExchangeEnds(c) ==
    /\ cpc[c] = "exchanging"
    /\ \E o \in ExchangeOutcomes :
        /\ outcome' = [outcome EXCEPT ![c] = o]
        /\ IF AfterExchange(o, exchanges[c]) = "done"
           THEN /\ resp' = [resp EXCEPT ![c] = ExchangeResponse(o)]
                /\ cpc' = [cpc EXCEPT ![c] = "done"]
                /\ UNCHANGED exchanges
           ELSE /\ exchanges' = [exchanges EXCEPT ![c] = exchanges[c] + 1]
                /\ UNCHANGED <<resp, cpc>>
        /\ logged' = [logged EXCEPT ![c] =
                        IF o.kind = "returns" THEN logged[c] ELSE Append(logged[c], o.value)]
    /\ UNCHANGED params
    /\ UNCHANGED gateVars
    /\ UNCHANGED slotVars

\* ------------------------------------------------------ specifications
\* one request through the gate
Init == InitGate(1, Scopes, Bodies) /\ InitSlot(0) /\ InitCallback({})

Next ==
    \/ \E r \in Requests : Dispatch(r)
    \/ \E r \in Requests : BufferingReceive(r)
    \/ \E r \in Requests : Classify(r)
    \/ \E r \in Requests : Route(r)
    \/ \E r \in Requests : HandlerReceive(r)
    \/ \E r \in Requests : HandlerReturn(r)

Spec == Init /\ [][Next]_vars

\* requests served concurrently by tool code
InitScope == InitGate(0, Scopes, Bodies) /\ InitSlot(NumSlotRequests) /\ InitCallback({})

NextScope ==
    \/ \E s \in SlotRequests : BeginRequest(s)
    \/ \E s \in SlotRequests : set_client_for_request(s)
    \/ \E s \in SlotRequests : EnterUnbound(s)
    \/ \E s \in SlotRequests : GetClient(s)
    \/ \E s \in SlotRequests : EndRequest(s)

SpecScope == InitScope /\ [][NextScope]_vars

\* two requests pass through the same middleware instance concurrently
PairScopes == { sc \in Scopes : sc.type = "http" /\ sc.method \in {"POST", "GET"} }

PairBodies == { <<ObjList>>, <<ObjCall>>, <<"[", "]">> }

InitPair == InitGate(2, PairScopes, PairBodies) /\ InitSlot(0) /\ InitCallback({})

NextPair ==
    \/ \E r \in Requests : Dispatch(r)
    \/ \E r \in Requests : BufferingReceive(r)
    \/ \E r \in Requests : Classify(r)
    \/ \E r \in Requests : Route(r)
    \/ \E r \in Requests : HandlerReceive(r)
    \/ \E r \in Requests : HandlerReturn(r)

SpecPair == InitPair /\ [][NextPair]_vars

\* callback requests handled concurrently
InitCb == InitGate(0, Scopes, Bodies) /\ InitSlot(0) /\ InitCallback(Callbacks)

NextCb ==
    \/ \E c \in CallbackRequests : CallbackEnter(c)
    \/ \E c \in CallbackRequests : ExchangeEnds(c)

SpecCallback == InitCb /\ [][NextCb]_vars

\* ------------------------------------------------------------ properties
IsPost(r) == scope[r].type = "http" /\ ScopeMethod(scope[r]) = "POST"

Invoked(r) == handler[r] # "none"

\* C1: a POST is sent to the bypass handler (the inner app) exactly when the
\* method set classified from its body is non-empty and every element is in
\* the allowlist; in every other case it is sent to the enforcing handler
C1_BypassIffAllowlisted ==
    \A r \in Requests :
        (IsPost(r) /\ Invoked(r)) =>
            /\ rpc_methods[r] = _extract_jsonrpc_methods(body[r]).methods
            /\ handler[r] \in {"app", "auth_middleware"}
            /\ (handler[r] = "app") <=>
                   (rpc_methods[r] # {} /\ \A m \in rpc_methods[r] : m \in UNAUTHENTICATED_METHODS)

\* C1 witness: a batch of two different public methods reached the inner app
C1_Witness ==
    \E r \in Requests :
        IsPost(r) /\ handler[r] = "app" /\ Cardinality(rpc_methods[r]) = 2

\* the bodies C2 is about: zero-length, not a JSON document, a top level
\* that is neither object nor array, or no method field
Unclassifiable(b) ==
    LET d == json_loads(b) IN
    \/ b = <<>>
    \/ d.exc # "none"
    \/ d.val.t \notin {"obj", "arr"}
    \/ d.val.t = "obj" /\ d.val.method.t = "absent"
    \/ d.val.t = "arr" /\ \A k \in 1..Len(d.val.items) :
            d.val.items[k].t # "obj" \/ d.val.items[k].method.t = "absent"

\* C2: a POST with a malformed or empty body yields the empty method set
\* without an exception and is sent to the enforcing handler; its handling
\* never ends without a handler invoked
C2_MalformedEnforced ==
    \A r \in Requests :
        (IsPost(r) /\ Unclassifiable(body[r]) /\ pc[r] \in {"route", "handler", "done"}) =>
            /\ rpc_methods[r] = {}
            /\ pc[r] # "route" => handler[r] = "auth_middleware"

\* the bodies C3 is about: a JSON array with an object element whose method
\* field holds a value outside the allowlist
HasDisallowed(b) ==
    LET d == json_loads(b) IN
    /\ d.exc = "none"
    /\ d.val.t = "arr"
    /\ \E k \in 1..Len(d.val.items) :
        /\ d.val.items[k].t = "obj"
        /\ d.val.items[k].method.t # "absent"
        /\ d.val.items[k].method \notin UNAUTHENTICATED_METHODS

\* C3: a POST whose batch holds a disallowed method is sent to the
\* enforcing handler, whatever else the batch holds and whatever the value
\* of the disallowed method field
C3_DisallowedInBatchEnforced ==
    \A r \in Requests :
        (IsPost(r) /\ HasDisallowed(body[r]) /\ pc[r] \in {"handler", "done"}) =>
            handler[r] = "auth_middleware"

\* C4: an http request whose method is not POST is sent to the enforcing
\* handler and never to the bypass handler, whatever its body or headers
C4_NonPostEnforced ==
    \A r \in Requests :
        (scope[r].type = "http" /\ scope[r].method # "POST") =>
            /\ handler[r] # "app"
            /\ pc[r] # "start" => handler[r] = "auth_middleware"

\* C4 witness: a DELETE with a bearer header and a body that names only a
\* public method was handed to the auth middleware
C4_Witness ==
    \E r \in Requests :
        /\ scope[r] = [type |-> "http", method |-> "DELETE", authorization |-> "bearer"]
        /\ body[r] = <<ObjList>>
        /\ handler[r] = "auth_middleware"

\* C5: the first message the chosen handler of a POST reads is one
\* http.request frame holding the whole original body with more_body false,
\* however the transport chunked the body and on either route
C5_ReplayWholeBody ==
    \A r \in Requests :
        (IsPost(r) /\ Len(seen[r]) >= 1) => seen[r][1] = RequestFrame(body[r], FALSE)

\* C5 witness: a body that arrived in two non-empty chunks was replayed
C5_Witness ==
    \E r \in Requests :
        /\ IsPost(r)
        /\ Len(body_parts[r]) = 2
        /\ body_parts[r][1] # <<>>
        /\ body_parts[r][2] # <<>>
        /\ Len(seen[r]) >= 1

\* the transport reported a disconnect before the last chunk of the body
DisconnectedWhileBuffering(r) == IsPost(r) /\ closed[r] /\ ~sentFinal[r]

\* C6: after a client disconnect reported while a POST body is being
\* buffered, neither handler is ever invoked for that request
C6_NoHandlerAfterDisconnect ==
    \A r \in Requests : DisconnectedWhileBuffering(r) => handler[r] = "none"

\* C6 witness: a first chunk was buffered, then the disconnect was reported
C6_Witness ==
    \E r \in Requests :
        DisconnectedWhileBuffering(r) /\ Len(body_parts[r]) >= 1 /\ body_parts[r][1] # <<>>

\* C7: once the transport has delivered http.disconnect during buffering,
\* the gate does not read from the transport again
C7_StopsReadingOnDisconnect ==
    [][\A r \in Requests : DisconnectedWhileBuffering(r) => reads'[r] = reads[r]]_vars

\* C8: a request that bound its own client gets that client, never another
\* request's, from every patched_get_client call it makes
C8_OwnClient ==
    \A s \in SlotRequests :
        (bound[s] # None /\ got[s] # NoCall) => got[s] = bound[s]

Ended(s) == spc[s] \in {"done", "failed"}

\* C9: once the owning request has ended, on either path, tool code of a
\* request that bound no client cannot obtain the ended request's client
C9_ReleasedAtEnd ==
    \A o \in SlotRequests : \A s \in SlotRequests :
        (Ended(o) /\ bound[o] # None /\ spc[s] = "tool" /\ bound[s] = None) =>
            patched_get_client(slot[ctxOf[s]]) # bound[o]

\* C10: patched_get_client raises the missing-credential error when the
\* current context holds no client and otherwise returns exactly the client
\* set in the current context
C10_RaisesWhenUnbound ==
    [][\A s \in SlotRequests :
          gets'[s] # gets[s] =>
              IF slot[ctxOf[s]] = None
              THEN got'[s] = RuntimeError
              ELSE got'[s] = slot[ctxOf[s]] /\ got'[s].id > 0]_vars

\* C10 witness: one request got the error, another got a client
C10_Witness ==
    \E s \in SlotRequests : \E t \in SlotRequests :
        got[s] = RuntimeError /\ got[t].id > 0 /\ got[t] = bound[t]

C12_FailureDetailNotEchoed ==
    \A a \in CallbackRequests : \A b \in CallbackRequests :
        ( /\ cpc[a] = "done" /\ cpc[b] = "done"
          /\ outcome[a].kind = "ValueError" /\ outcome[b].kind = "ValueError"
          /\ params[a] = params[b] ) =>
            /\ resp[a].status = 400
            /\ resp[a].error = "callback_failed"
            /\ resp[a] = resp[b]

C14_UnexpectedIsGeneric500 ==
    \A c \in CallbackRequests :
        outcome[c].kind = "Exception" =>
            /\ cpc[c] = "done"
            /\ resp[c] = JSONResponse("internal_error", "An internal error occurred", 500)
            /\ resp[c].detail \notin FailureDetails
            /\ outcome[c].value \in { logged[c][i] : i \in 1..Len(logged[c]) }

\* C14 witness: two unexpected failures with different details were answered
C14_Witness ==
    \E a \in CallbackRequests : \E b \in CallbackRequests :
        /\ outcome[a] = [kind |-> "Exception", value |-> "detail-a"]
        /\ outcome[b] = [kind |-> "Exception", value |-> "detail-b"]
        /\ resp[a].status = 500 /\ resp[b].status = 500

\* C15: within one POST every chunk up to the one with more_body false is
\* read before the methods are classified, and the classification is done
\* before a handler is invoked; no handler runs while chunks are unread
C15_BufferClassifyRoute ==
    \A r \in Requests :
        IsPost(r) =>
            /\ pc[r] \in {"start", "buffering"} => handler[r] = "none"
            /\ pc[r] \in {"route", "handler", "done"} =>
                   /\ sentFinal[r] /\ wire[r] = <<>> /\ body_complete[r]
                   /\ full_body[r] = Join(body_parts[r], 1)
            /\ pc[r] = "route" =>
                   /\ handler[r] = "none"
                   /\ rpc_methods[r] = _extract_jsonrpc_methods(full_body[r]).methods
            /\ Invoked(r) => sentFinal[r] /\ wire[r] = <<>> /\ body_complete[r]
            /\ (pc[r] = "handler" /\ seen[r] = <<>>) =>
                   rpc_methods[r] = _extract_jsonrpc_methods(full_body[r]).methods

\* C15 witness: a handler was invoked for a body read in two frames
C15_Witness ==
    \E r \in Requests :
        IsPost(r) /\ Invoked(r) /\ Len(body_parts[r]) = 2 /\ body_parts[r][1] # <<>>

\* C16: in every execution of __call__ at most one handler is invoked, at
\* most once, and no other handler is invoked after it returned or failed
C16_SingleDecision ==
    \A r \in Requests :
        /\ Len(calls[r]) <= 1
        /\ Invoked(r) => calls[r] = <<handler[r]>>
        /\ pc[r] = "done" /\ exc[r] \in {"TypeError", "UnicodeDecodeError"} => calls[r] = <<>>

\* C16 witness: the chosen inner app failed and nothing else was invoked
C16_Witness ==
    \E r \in Requests :
        pc[r] = "done" /\ exc[r] = "HandlerError" /\ calls[r] = <<"app">>

\* the items of a body that is a well-formed batch
ItemsOf(b) == SelectSeq(b, LAMBDA u : u \in ItemUnits)

IsBatch(b) == Len(ItemsOf(b)) <= MaxBatch /\ b = BatchBody(ItemsOf(b))

RangeOf(q) == { q[i] : i \in 1..Len(q) }

\* the batches that hold the same elements as q, in any order and number
Rearranged(q) == { t \in SeqsUpTo(RangeOf(q), MaxBatch) : RangeOf(t) = RangeOf(q) }

\* C17: the method set classified for a batch, and the route taken for it,
\* are those of every batch holding the same elements reordered or repeated;
\* a body of one object is classified and routed like the batch of that object
C17_SetNotPosition ==
    \A r \in Requests :
        (IsPost(r) /\ pc[r] = "handler" /\ seen[r] = <<>>) =>
            /\ IsBatch(body[r]) =>
                   \A t \in Rearranged(ItemsOf(body[r])) :
                       LET e == _extract_jsonrpc_methods(BatchBody(t)) IN
                       /\ e.exc = "none"
                       /\ e.methods = rpc_methods[r]
                       /\ Bypasses(e.methods) <=> handler[r] = "app"
            /\ (Len(body[r]) = 1 /\ body[r][1] \in ObjectUnits) =>
                   LET e == _extract_jsonrpc_methods(BatchBody(body[r])) IN
                   /\ e.exc = "none"
                   /\ e.methods = rpc_methods[r]
                   /\ Bypasses(e.methods) <=> handler[r] = "app"

\* C17 witness: a batch of a public and a disallowed method was routed
C17_Witness ==
    \E r \in Requests :
        /\ IsPost(r) /\ pc[r] = "handler" /\ seen[r] = <<>>
        /\ body[r] = BatchBody(<<ObjList, ObjCall>>)
        /\ handler[r] = "auth_middleware"

\* C18: two requests that agree on scope type, method and body and differ
\* in their headers only are sent to the same handler
C18_RouteIgnoresHeaders ==
    \A a \in Requests : \A b \in Requests :
        ( /\ scope[a].type = scope[b].type
          /\ scope[a].method = scope[b].method
          /\ body[a] = body[b]
          /\ Invoked(a) /\ Invoked(b) ) =>
            handler[a] = handler[b]

\* C18 witness: the same public request, once with a credential and once
\* without, reached the inner app both times
C18_Witness ==
    \E a \in Requests : \E b \in Requests :
        /\ scope[a].authorization = "bearer"
        /\ scope[b].authorization = "none"
        /\ body[a] = <<ObjList>> /\ body[b] = <<ObjList>>
        /\ handler[a] = "app" /\ handler[b] = "app"

\* C19: under every interleaving of concurrent POSTs through one instance
\* the frame replayed to a request holds that request's own body and its
\* route is decided from its own body; no chunk of another request appears
C19_RequestsIsolated ==
    \A r \in Requests : IsPost(r) =>
        /\ \E k \in 0..Len(body[r]) : Join(body_parts[r], 1) = SubSeq(body[r], 1, k)
        /\ pc[r] \in {"route", "handler"} => full_body[r] = body[r]
        /\ Len(seen[r]) >= 1 => seen[r][1] = RequestFrame(body[r], FALSE)
        /\ Invoked(r) =>
               handler[r] = IF Bypasses(_extract_jsonrpc_methods(body[r]).methods)
                            THEN "app" ELSE "auth_middleware"

\* C19 witness: two requests with different bodies were buffered in two
\* frames each, routed to different handlers, and each read its frame
C19_Witness ==
    /\ Requests = {1, 2}
    /\ IsPost(1) /\ IsPost(2)
    /\ body[1] # body[2]
    /\ Len(body_parts[1]) = 2 /\ Len(body_parts[2]) = 2
    /\ handler[1] = "app" /\ handler[2] = "auth_middleware"
    /\ Len(seen[1]) >= 1 /\ Len(seen[2]) >= 1

\* C20: the buffered frame is handed out once, as the first message the
\* handler reads; every later read goes to the transport, so no chunk is
\* delivered again and a later disconnect reaches the handler
C20_ReplayOnce ==
    \A r \in Requests :
        rcv[r] = "replay_receive" =>
            /\ body_sent[r] <=> Len(seen[r]) >= 1
            /\ Len(seen[r]) >= 1 =>
                   /\ seen[r][1] = ReplayFrame(full_body[r])
                   /\ reads[r] = Len(body_parts[r]) + Len(seen[r]) - 1
            /\ \A i \in 2..Len(seen[r]) : seen[r][i] = Disconnect
            /\ closed[r] <=> \E i \in 2..Len(seen[r]) : seen[r][i] = Disconnect

\* C20 witness: after the replayed frame the handler read the disconnect
C20_Witness ==
    \E r \in Requests :
        /\ rcv[r] = "replay_receive"
        /\ Len(seen[r]) = 2
        /\ seen[r][1].body # <<>>
        /\ seen[r][2] = Disconnect

====
